---- MODULE Spec2Model ----
(***************************************************************************)
(* Products API (FastAPI + pydantic): the request validation of            *)
(* app/models.py, the in-memory catalog of app/services.py and the route   *)
(* handlers of app/routes.py.                                              *)
(*                                                                         *)
(* Representation.                                                         *)
(*  - A JSON value of a request body is a record [k, s, n]: k is its JSON  *)
(*    kind ("absent" when the key is missing from the object), s its text  *)
(*    when it is a string, n its number.  A number written as an integer   *)
(*    literal has kind "int" and n its value; a number written with a      *)
(*    fraction part has kind "float" and n its value in hundredths         *)
(*    (5.5 is JFloat(550), 5.0 is JFloat(500), 999.99 is JFloat(99999)).   *)
(*  - A cost held by a model instance is a float; it is kept in            *)
(*    hundredths (0.00 is 0, 999.99 is 99999).                             *)
(*  - The dict `products` keeps insertion order; it is a sequence of       *)
(*    [key, value] entries.                                                *)
(*  - pydantic is the library the models are declared with; its field      *)
(*    validation follows the 2.x rules (the declaration                    *)
(*    Optional[StrictFloat] with Field(le, ge) is one only 2.x accepts).   *)
(***************************************************************************)
EXTENDS Integers, Sequences, FiniteSets, TLC

VARIABLES
    products,   \* services.products: the catalog, Dict[int, Product]
    next_id,    \* services.next_id: the id counter
    last,       \* the last request and the response it got
    issued,     \* the ids the create calls returned, in call order
    deleted,    \* the ids the delete calls removed
    scenario,   \* how many requests of ScenarioRequests the run has made so far
    raw,        \* the input of a validation
    validated,  \* its outcome
    tasks       \* the handler calls in flight on the event loop

vars ==
    <<products, next_id, last, issued, deleted, scenario, raw, validated, tasks>>

(***************************************************************************)
(* Bounds of the model.                                                    *)
(***************************************************************************)
\* number of create calls an execution may complete
MaxCreates == 2

\* number of requests that may be in flight at once
MaxTasks == 2

(***************************************************************************)
(* Program constants.                                                      *)
(***************************************************************************)
InventoryMin == 1
InventoryMax == 9999
CostMin == 0
CostMax == 99999
CostDefault == 0
FirstId == 1
StatusOk == 200
StatusCreated == 201
StatusNoContent == 204
StatusBadRequest == 400
StatusNotFound == 404
StatusServerError == 500

\* class ProductType(str, Enum)
ProductType == {"book", "food", "gadget", "other"}

(***************************************************************************)
(* JSON values.                                                            *)
(***************************************************************************)
Absent == [k |-> "absent", s |-> "", n |-> 0]
JNull == [k |-> "null", s |-> "", n |-> 0]
JStr(x) == [k |-> "str", s |-> x, n |-> 0]
JInt(x) == [k |-> "int", s |-> "", n |-> x]
JFloat(hundredths) == [k |-> "float", s |-> "", n |-> hundredths]
JBool(b) == [k |-> "bool", s |-> "", n |-> IF b THEN 1 ELSE 0]

\* the fields of ProductDetails, in declaration order
DetailFields == {"name", "type", "inventory", "cost"}

(***************************************************************************)
(* Field validation of ProductDetails.  Each operator gives TRUE when the  *)
(* field of the body produces no error.                                    *)
(***************************************************************************)
\* name: str  (required; any string, the empty one included)
NameOk(v) == v.k = "str"

\* the field declared as a plain str
TypeAnyStringBug(v) == v.k = "str"

\* the member looked up by its name as well as by its value
TypeByNameBug(v) == v.k = "str" /\ v.s \in ProductType \cup {"BOOK"}

\* type: ProductType  (required; the value of an enumeration member)
TypeOk(v) == v.k = "str" /\ v.s \in ProductType

\* inventory: StrictInt  (required; an int, never a bool, a str or a float)
StrictIntOk(v) == v.k = "int"

\* the bounds taken as exclusive, as the message of the error words them
check_inventory_exclusive_bug(n) == ~(n <= InventoryMin \/ n >= InventoryMax)

\* @validator('inventory') check_inventory, run after StrictInt accepted v
check_inventory(n) == ~(n < InventoryMin \/ n > InventoryMax)

InventoryOk(v) == StrictIntOk(v) /\ check_inventory(v.n)

\* the validator without its None test
check_cost_accepts_none_bug(v) == TRUE

\* @validator('cost', pre=True, always=True) check_cost: only None is refused
check_cost(v) == v.k # "null"

\* StrictFloat: a float, or an int (converted); never a bool or a str
StrictFloatOk(v) == v.k \in {"float", "int"}

\* the float a JSON number converts to, in hundredths
ToFloat(v) == IF v.k = "int" THEN v.n * 100 ELSE v.n

\* the bounds declared with lt and gt
CostRangeExclusiveBug(c) == c > CostMin /\ c < CostMax

\* Field(default=0.00, le=999.99, ge=0.00)
CostRangeOk(c) == c >= CostMin /\ c <= CostMax

\* Optional[StrictFloat] with the bounds of the Field: None, or a float in range
OptionalCostOk(v) ==
    \/ v.k = "null"
    \/ StrictFloatOk(v) /\ CostRangeOk(ToFloat(v))

\* cost: the default when the key is absent (the validator accepts 0.00),
\* otherwise check_cost first (pre=True) and then the declared type
CostOk(v) ==
    \/ v.k = "absent"
    \/ check_cost(v) /\ OptionalCostOk(v)

\* the cost None of a model instance, which is no float
NoneCost == CostMin - 1

\* validation stopped at the first field, in declaration order, with an error
ErrorsFirstOnlyBug(body) ==
    IF ~NameOk(body.name) THEN {"name"}
    ELSE IF ~TypeOk(body.type) THEN {"type"}
    ELSE IF ~InventoryOk(body.inventory) THEN {"inventory"}
    ELSE IF ~CostOk(body.cost) THEN {"cost"}
    ELSE {}

\* the fields of the body that produce an error; pydantic validates every
\* field and collects the errors of all of them
Errors(body) ==
    {f \in DetailFields :
        \/ f = "name" /\ ~NameOk(body.name)
        \/ f = "type" /\ ~TypeOk(body.type)
        \/ f = "inventory" /\ ~InventoryOk(body.inventory)
        \/ f = "cost" /\ ~CostOk(body.cost)}

\* __fields_set__: the fields the input supplied; keys that are no field of
\* the model (such as id) are ignored
FieldsSet(body) == {f \in DetailFields : body[f].k # "absent"}

NoDetails ==
    [name |-> "", type |-> "", inventory |-> 0, cost |-> 0, fields_set |-> {}]

\* the ProductDetails instance a valid body gives
Parse(body) ==
    [name |-> body.name.s,
     type |-> body.type.s,
     inventory |-> body.inventory.n,
     cost |-> IF body.cost.k = "absent" THEN CostDefault
              ELSE IF body.cost.k = "null" THEN NoneCost
              ELSE ToFloat(body.cost),
     fields_set |-> FieldsSet(body)]

\* building a ProductDetails from a body: the instance, or the errors
Validate(body) ==
    LET e == Errors(body) IN
    [done |-> TRUE, ok |-> e = {}, errors |-> e,
     value |-> IF e = {} THEN Parse(body) ELSE NoDetails]

(***************************************************************************)
(* Model instances.                                                        *)
(***************************************************************************)
NoProduct == [id |-> 0, name |-> "", type |-> "", inventory |-> 0, cost |-> 0]

\* product_details.dict(): every field, the defaulted ones included
DetailsDict(d) ==
    [name |-> d.name, type |-> d.type, inventory |-> d.inventory, cost |-> d.cost]

\* the Product model declared without the cost field
NewProductDropsCostBug(id, d) ==
    [id |-> id, name |-> d.name, type |-> d.type, inventory |-> d.inventory,
     cost |-> CostDefault]

\* Product(id=next_id, **product_details.dict())
NewProduct(id, d) ==
    [id |-> id, name |-> d.name, type |-> d.type, inventory |-> d.inventory,
     cost |-> d.cost]

\* new_details.dict() without exclude_unset: every field is assigned
UpdateAllFieldsBug(d) == DetailFields

\* new_details.dict(exclude_unset=True).items(): the fields to assign
UpdatedFields(d) == d.fields_set

\* Product.update_details: setattr(self, field, value) for each such field
update_details(p, d) ==
    [f \in DOMAIN p |-> IF f \in UpdatedFields(d) THEN d[f] ELSE p[f]]

(***************************************************************************)
(* The dict products: Dict[int, Product], in insertion order.              *)
(***************************************************************************)
Keys(d) == {d[i].key : i \in DOMAIN d}

Values(d) == [i \in DOMAIN d |-> d[i].value]

IndexOf(d, k) == CHOOSE i \in DOMAIN d : d[i].key = k

\* d.get(k), for a key of d
DictGet(d, k) == d[IndexOf(d, k)].value

\* the entry removed and inserted again: an existing key goes last too
DictSetMovesToEndBug(d, k, v) ==
    Append(SelectSeq(d, LAMBDA e : e.key # k), [key |-> k, value |-> v])

\* d[k] = v: a new key goes last, an existing key keeps its place
DictSet(d, k, v) ==
    IF k \in Keys(d)
    THEN [d EXCEPT ![IndexOf(d, k)].value = v]
    ELSE Append(d, [key |-> k, value |-> v])

\* the entry removed together with the ones inserted after it
DictDelFromBug(d, k) == SubSeq(d, 1, IndexOf(d, k) - 1)

\* del d[k]
DictDel(d, k) == SelectSeq(d, LAMBDA e : e.key # k)

(***************************************************************************)
(* app/services.py: the catalog operations on (products, next_id).         *)
(***************************************************************************)
\* get_all_products_service: the values of the dict, in its order, that
\* pass the filter (Absent is type=None)
get_all_products_service(d, t) ==
    SelectSeq(Values(d), LAMBDA p : t.k = "absent" \/ p.type = t.s)

\* the id also checked against the number of products
NotFoundByCountBug(d, id) == id \notin Keys(d) \/ id > Len(d)

\* `if not product` / `product_id not in products`
NotFound(d, id) == id \notin Keys(d)

\* the product built with the first id instead of the counter
CreateStoreFirstIdBug(d, nid, det) ==
    DictSet(d, nid, NewProduct(FirstId, DetailsDict(det)))

\* create_product_service, lines 32-33: the dict after the insertion
CreateStore(d, nid, det) == DictSet(d, nid, NewProduct(nid, DetailsDict(det)))

\* the counter left as it was
NoIncrementBug(nid) == nid

\* the counter stepped by two
NextIdSkipsBug(nid) == nid + 2

\* create_product_service, line 34: next_id += 1
NextIdAfterCreate(nid) == nid + 1

\* the lookup done with pop
GetPopsBug(d, id) == DictDel(d, id)

\* get_product_by_id_service, line 50: products.get leaves the dict as it is
StoreAfterGet(d, id) == d

\* update_product_service, line 72: the product is mutated in place
UpdateStore(d, id, det) == DictSet(d, id, update_details(DictGet(d, id), det))

\* the entry left in the dict
DeleteKeepsEntryBug(d, id) == d

\* delete_product_service, line 87
DeleteStore(d, id) == DictDel(d, id)

(***************************************************************************)
(* Requests.                                                               *)
(***************************************************************************)
Body(n, t, i, c, id) ==
    [name |-> n, type |-> t, inventory |-> i, cost |-> c, id |-> id]

NoBody == Body(Absent, Absent, Absent, Absent, Absent)

\* bodies that pass validation
ValidBodies ==
    {Body(JStr("Pen"), JStr("other"), JInt(50), Absent, Absent),
     Body(JStr("Pen"), JStr("other"), JInt(10), Absent, Absent),
     Body(JStr("Ink"), JStr("book"), JInt(1), JFloat(99999), Absent),
     Body(JStr("Ink"), JStr("other"), JInt(9999), JFloat(0), JInt(2)),
     Body(JStr(""), JStr("food"), JInt(50), JInt(5), Absent)}

\* bodies that fail validation
InvalidBodies ==
    {Body(Absent, Absent, JInt(10), Absent, Absent),
     Body(JStr("Pen"), JStr("toy"), JInt(50), Absent, Absent),
     Body(JStr("Pen"), JStr("other"), JInt(0), Absent, Absent),
     Body(JStr("Pen"), JStr("other"), JInt(50), JNull, Absent),
     Body(JStr("Ink"), JStr("toy"), JInt(10000), JNull, Absent)}

Bodies == ValidBodies \cup InvalidBodies

\* the ids requests address: unassigned ones, zero and a negative one included
Ids == -1 .. (MaxCreates + 1)

\* the type query parameter: absent, a member of the enumeration, or not
Filters == {Absent} \cup {JStr(t) : t \in ProductType \cup {"toy"}}

FilterOk(t) == t.k = "absent" \/ TypeOk(t)

\* the last request and its response
Response(op, id, type, body, status, rid, rproduct, rlist) ==
    [op |-> op, id |-> id, type |-> type, body |-> body, status |-> status,
     ret_id |-> rid, ret_product |-> rproduct, ret_list |-> rlist]

\* no validation made yet
NoResult == [done |-> FALSE, ok |-> FALSE, errors |-> {}, value |-> NoDetails]

\* the request sequence of the scenario: create, get, update, delete, get
PenBody == Body(JStr("Pen"), JStr("other"), JInt(50), Absent, Absent)
InventoryOnlyBody == Body(Absent, Absent, JInt(10), Absent, Absent)

Request(op, id, body) == [op |-> op, id |-> id, body |-> body]

ScenarioRequests ==
    <<Request("create", 0, PenBody),
      Request("get", FirstId, NoBody),
      Request("update", FirstId, InventoryOnlyBody),
      Request("delete", FirstId, NoBody),
      Request("get", FirstId, NoBody)>>

ScenarioOff == Len(ScenarioRequests) + 1

\* the scenario goes on when the request is its next one, and is left otherwise
Observe(op, id, body) ==
    IF scenario < Len(ScenarioRequests)
       /\ ScenarioRequests[scenario + 1] = Request(op, id, body)
    THEN scenario + 1
    ELSE ScenarioOff

(***************************************************************************)
(* Handler calls in flight.  A task is the call of one route handler: its  *)
(* position pc (the line of services.py it executes next), the request,    *)
(* the local variable product, the response, and what it did to the dict.  *)
(***************************************************************************)
TaskIds == 1 .. MaxTasks

IdleTask ==
    [pc |-> "idle", op |-> "none", id |-> 0, details |-> NoDetails,
     product |-> NoProduct, status |-> 0, ret_id |-> 0,
     overwrote |-> FALSE, stale |-> FALSE]

NoTasks == [t \in TaskIds |-> IdleTask]

(***************************************************************************)
(* app/routes.py: one action per route handler.  The framework validates   *)
(* the parameters and the body before it calls the handler; a validation   *)
(* error is answered by validation_exception_handler (app/main.py) with    *)
(* 400, and the HTTPException of a service with its status code.           *)
(***************************************************************************)
Init ==
    /\ products = << >>
    /\ next_id = FirstId
    /\ last = Response("none", 0, Absent, NoBody, 0, 0, NoProduct, << >>)
    /\ issued = << >>
    /\ deleted = {}
    /\ scenario = 0
    /\ raw = NoBody
    /\ validated = NoResult
    /\ tasks = NoTasks

\* GET /products?type=...
get_products(t) ==
    /\ last' = IF FilterOk(t)
               THEN Response("list", 0, t, NoBody, StatusOk, 0, NoProduct,
                             get_all_products_service(products, t))
               ELSE Response("list", 0, t, NoBody, StatusBadRequest, 0, NoProduct, << >>)
    /\ scenario' = ScenarioOff
    /\ UNCHANGED <<products, next_id, issued, deleted, raw, validated, tasks>>

\* POST /products
create_product(body) ==
    LET v == Validate(body) IN
    /\ IF ~v.ok
       THEN /\ last' = Response("create", 0, Absent, body, StatusBadRequest, 0,
                                NoProduct, << >>)
            /\ UNCHANGED <<products, next_id, issued>>
       ELSE /\ Len(issued) < MaxCreates
            /\ products' = CreateStore(products, next_id, v.value)
            /\ next_id' = NextIdAfterCreate(next_id)
            /\ last' = Response("create", 0, Absent, body, StatusCreated,
                                DictGet(products', next_id).id, NoProduct, << >>)
            /\ issued' = Append(issued, last'.ret_id)
    /\ scenario' = Observe("create", 0, body)
    /\ UNCHANGED <<deleted, raw, validated, tasks>>

\* GET /products/{product_id}
get_product_by_id(id) ==
    /\ last' = IF NotFound(products, id)
               THEN Response("get", id, Absent, NoBody, StatusNotFound, 0,
                             NoProduct, << >>)
               ELSE Response("get", id, Absent, NoBody, StatusOk, 0,
                             DictGet(products, id), << >>)
    /\ products' = StoreAfterGet(products, id)
    /\ scenario' = Observe("get", id, NoBody)
    /\ UNCHANGED <<next_id, issued, deleted, raw, validated, tasks>>

\* PUT /products/{product_id}
update_product(id, body) ==
    LET v == Validate(body) IN
    /\ IF ~v.ok
       THEN /\ last' = Response("update", id, Absent, body, StatusBadRequest, 0,
                                NoProduct, << >>)
            /\ UNCHANGED products
       ELSE IF NotFound(products, id)
       THEN /\ last' = Response("update", id, Absent, body, StatusNotFound, 0,
                                NoProduct, << >>)
            /\ UNCHANGED products
       ELSE /\ products' = UpdateStore(products, id, v.value)
            /\ last' = Response("update", id, Absent, body, StatusOk, 0,
                                DictGet(products', id), << >>)
    /\ scenario' = Observe("update", id, body)
    /\ UNCHANGED <<next_id, issued, deleted, raw, validated, tasks>>

\* DELETE /products/{product_id}
delete_product(id) ==
    /\ IF NotFound(products, id)
       THEN /\ last' = Response("delete", id, Absent, NoBody, StatusNotFound, 0,
                                NoProduct, << >>)
            /\ UNCHANGED <<products, deleted>>
       ELSE /\ products' = DeleteStore(products, id)
            /\ deleted' = deleted \cup {id}
            /\ last' = Response("delete", id, Absent, NoBody, StatusNoContent, 0,
                                NoProduct, << >>)
    /\ scenario' = Observe("delete", id, NoBody)
    /\ UNCHANGED <<next_id, issued, raw, validated, tasks>>

Next ==
    \/ \E t \in Filters : get_products(t)
    \/ \E b \in Bodies : create_product(b)
    \/ \E id \in Ids : get_product_by_id(id)
    \/ \E id \in Ids, b \in Bodies : update_product(id, b)
    \/ \E id \in Ids : delete_product(id)

Spec == Init /\ [][Next]_vars

(***************************************************************************)
(* Validation alone: a ProductDetails built from each raw body.            *)
(***************************************************************************)
RawNames == {JStr("Pen"), JStr(""), JInt(5), JNull, Absent}

RawTypes == {JStr(t) : t \in ProductType \cup {"toy", "BOOK"}} \cup {JNull, Absent}

RawInventories ==
    {JInt(0), JInt(1), JInt(50), JInt(9999), JInt(10000), JInt(-1), JStr("5"),
     JBool(TRUE), JFloat(550), JFloat(500), JNull, Absent}

RawCosts ==
    {Absent, JNull, JFloat(-1), JFloat(0), JFloat(1050), JFloat(99999),
     JFloat(100000), JInt(5), JInt(1000), JStr("5"), JBool(TRUE)}

RawBodies ==
    {Body(n, t, i, c, Absent) :
        n \in RawNames, t \in RawTypes, i \in RawInventories, c \in RawCosts}

ValidationInit ==
    /\ products = << >>
    /\ next_id = FirstId
    /\ last = Response("none", 0, Absent, NoBody, 0, 0, NoProduct, << >>)
    /\ issued = << >>
    /\ deleted = {}
    /\ scenario = 0
    /\ raw \in RawBodies
    /\ validated = NoResult
    /\ tasks = NoTasks

\* the framework builds ProductDetails from the body of the request
validate_body ==
    /\ ~validated.done
    /\ validated' = Validate(raw)
    /\ UNCHANGED <<products, next_id, last, issued, deleted, scenario, raw, tasks>>

ValidationNext == validate_body

ValidationSpec == ValidationInit /\ [][ValidationNext]_vars

(***************************************************************************)
(* The handlers as coroutines on the event loop.  Several requests are in  *)
(* flight; the loop resumes one task at a time and the task runs until it  *)
(* reaches a suspension point or returns.  The statements of the services  *)
(* are executed one by one on st = [products, next_id].                    *)
(***************************************************************************)
\* the first statement of each service
FirstPc(op) ==
    IF op = "create" THEN "l32" ELSE IF op = "update" THEN "l69" ELSE "l85"

\* the statement at tk.pc, executed on st: the state and the task after it
ExecStatement(st, tk) ==
    CASE tk.pc = "l32" ->   \* product = Product(id=next_id, ...)
           [st |-> st,
            tk |-> [tk EXCEPT !.pc = "l33",
                              !.product = NewProduct(st.next_id, DetailsDict(tk.details))]]
      [] tk.pc = "l33" ->   \* products[next_id] = product
           [st |-> [st EXCEPT !.products = DictSet(st.products, st.next_id, tk.product)],
            tk |-> [tk EXCEPT !.pc = "l34",
                              !.overwrote = st.next_id \in Keys(st.products)]]
      [] tk.pc = "l34" ->   \* next_id += 1; return ProductId(id=product.id)
           [st |-> [st EXCEPT !.next_id = NextIdAfterCreate(st.next_id)],
            tk |-> [tk EXCEPT !.pc = "done", !.status = StatusCreated,
                              !.ret_id = tk.product.id]]
      [] tk.pc = "l69" ->   \* product = products.get(id); if not product: raise
           IF NotFound(st.products, tk.id)
           THEN [st |-> st, tk |-> [tk EXCEPT !.pc = "done", !.status = StatusNotFound]]
           ELSE [st |-> st,
                 tk |-> [tk EXCEPT !.pc = "l72", !.product = DictGet(st.products, tk.id)]]
      [] tk.pc = "l72" ->   \* product.update_details(...); return product
           IF tk.id \in Keys(st.products)
           THEN [st |-> [st EXCEPT !.products = UpdateStore(st.products, tk.id, tk.details)],
                 tk |-> [tk EXCEPT !.pc = "done", !.status = StatusOk,
                                   !.product = update_details(tk.product, tk.details)]]
           ELSE \* the object is mutated after its entry was removed
                [st |-> st,
                 tk |-> [tk EXCEPT !.pc = "done", !.status = StatusOk, !.stale = TRUE,
                                   !.product = update_details(tk.product, tk.details)]]
      [] tk.pc = "l85" ->   \* if product_id not in products: raise
           IF NotFound(st.products, tk.id)
           THEN [st |-> st, tk |-> [tk EXCEPT !.pc = "done", !.status = StatusNotFound]]
           ELSE [st |-> st, tk |-> [tk EXCEPT !.pc = "l87"]]
      [] tk.pc = "l87" ->   \* del products[product_id]
           IF tk.id \in Keys(st.products)
           THEN [st |-> [st EXCEPT !.products = DeleteStore(st.products, tk.id)],
                 tk |-> [tk EXCEPT !.pc = "done", !.status = StatusNoContent]]
           ELSE \* KeyError: the entry is gone, the request ends in a server error
                [st |-> st,
                 tk |-> [tk EXCEPT !.pc = "done", !.status = StatusServerError,
                                   !.stale = TRUE]]

\* an await between the statements of the services
SuspendsAfterEachStatementBug(op, pc) == TRUE

\* whether the task suspends after the statement at pc: the bodies of the
\* services hold no await, and the await of the route handler on the
\* service coroutine runs it without yielding to the loop
Suspends(op, pc) == FALSE

\* the task resumed: it runs until it returns or suspends
RECURSIVE RunTask(_, _)
RunTask(st, tk) ==
    LET r == ExecStatement(st, tk) IN
    IF r.tk.pc = "done" \/ Suspends(tk.op, tk.pc) THEN r ELSE RunTask(r.st, r.tk)

\* the response of a call that returned, with what the call did and whether
\* other requests were in flight when it returned
TaskResponse(tk, raced) ==
    [op |-> tk.op, id |-> tk.id, status |-> tk.status, ret_id |-> tk.ret_id,
     raced |-> raced, overwrote |-> tk.overwrote, stale |-> tk.stale]

\* bodies and ids of the concurrent requests
ConcurrentCreateBodies ==
    {Body(JStr("Pen"), JStr("other"), JInt(50), Absent, Absent)}

ConcurrentUpdateBodies ==
    {Body(JStr("Ink"), JStr("book"), JInt(1), JFloat(99999), Absent)}

ConcurrentIds == FirstId .. MaxCreates

InFlight(t) == tasks[t].pc # "idle"

\* the creates received and not yet returned
CreatesInFlight == {t \in TaskIds : InFlight(t) /\ tasks[t].op = "create"}

\* the framework has read and validated a request and scheduled its handler
Arrive(t, op, id, body) ==
    /\ tasks[t].pc = "idle"
    /\ op # "delete" => Validate(body).ok
    /\ op = "create" => Len(issued) + Cardinality(CreatesInFlight) < MaxCreates
    /\ tasks' = [tasks EXCEPT ![t] =
                    [IdleTask EXCEPT !.pc = FirstPc(op), !.op = op, !.id = id,
                                     !.details = IF op = "delete" THEN NoDetails
                                                 ELSE Validate(body).value]]
    /\ UNCHANGED <<products, next_id, last, issued, deleted, scenario, raw, validated>>

\* the event loop resumes task t; a call that returns is answered and its
\* slot is free again
Resume(t) ==
    /\ InFlight(t)
    /\ LET r == RunTask([products |-> products, next_id |-> next_id], tasks[t])
           returned == r.tk.pc = "done"
       IN
        /\ products' = r.st.products
        /\ next_id' = r.st.next_id
        /\ tasks' = [tasks EXCEPT ![t] = IF returned THEN IdleTask ELSE r.tk]
        /\ last' = IF returned
                   THEN TaskResponse(r.tk, \E u \in TaskIds \ {t} : InFlight(u))
                   ELSE last
        /\ issued' = IF returned /\ r.tk.op = "create"
                      THEN Append(issued, r.tk.ret_id) ELSE issued
        /\ deleted' = IF returned /\ r.tk.status = StatusNoContent
                       THEN deleted \cup {r.tk.id} ELSE deleted
    /\ UNCHANGED <<scenario, raw, validated>>

ConcurrentNext ==
    \/ \E t \in TaskIds, b \in ConcurrentCreateBodies : Arrive(t, "create", 0, b)
    \/ \E t \in TaskIds, id \in ConcurrentIds, b \in ConcurrentUpdateBodies :
          Arrive(t, "update", id, b)
    \/ \E t \in TaskIds, id \in ConcurrentIds : Arrive(t, "delete", id, NoBody)
    \/ \E t \in TaskIds : Resume(t)

ConcurrentSpec == Init /\ [][ConcurrentNext]_vars

(***************************************************************************)
(* Properties.                                                             *)
(***************************************************************************)
\* the product stored under key k
Stored(d, k) == DictGet(d, k)

\* the number a JSON number denotes, in hundredths
NumberOf(v) == IF v.k = "int" THEN v.n * 100 ELSE v.n

\* the Product that equals the details of a valid body plus the id
ProductOf(id, body) ==
    [id |-> id, name |-> body.name.s, type |-> body.type.s,
     inventory |-> body.inventory.n,
     cost |-> IF body.cost.k = "absent" THEN 0 ELSE NumberOf(body.cost)]

\* the step is an update or a delete of id k
Touches(k) == last'.op \in {"update", "delete"} /\ last'.id = k

\* C1: create(d) followed by get of the returned id, with no update or
\* delete of that id in between, returns d plus the id: a create stores
\* under the id it returns the product that equals d (cost 0.00 when d has
\* none) with that id; every step that is no update or delete of an id keeps
\* the product stored under it; and get of a stored id returns the product
\* stored under it.
RoundTripCreateGet ==
    [][/\ (last'.op = "create" /\ last'.status = StatusCreated) =>
            /\ last'.ret_id \in Keys(products')
            /\ Stored(products', last'.ret_id) = ProductOf(last'.ret_id, last'.body)
       /\ \A k \in Keys(products) :
            ~Touches(k) => /\ k \in Keys(products')
                           /\ Stored(products', k) = Stored(products, k)
       /\ (last'.op = "get" /\ last'.id \in Keys(products)) =>
            /\ last'.status = StatusOk
            /\ last'.ret_product = Stored(products, last'.id)]_vars

\* a get that returned the second product, created with a cost, after the
\* first product was updated
RoundTripWitness ==
    /\ last.op = "get"
    /\ last.status = StatusOk
    /\ last.ret_product = ProductOf(2, Body(JStr("Ink"), JStr("book"), JInt(1),
                                            JFloat(99999), Absent))
    /\ Len(products) = 2
    /\ products[1].value.inventory = 10

\* C2: the ids returned by successive create calls are strictly increasing,
\* so none is returned twice, also when its product was deleted in between.
IdsStrictlyIncreasing ==
    \A i, j \in DOMAIN issued : i < j => issued[i] < issued[j]

\* a create that returned its id after the product of the first create was
\* deleted
IdsIncreasingWitness ==
    /\ last.op = "create"
    /\ last.status = StatusCreated
    /\ Len(issued) = 2
    /\ issued[1] \in deleted

\* C3: a successful update(id, partial) gives every field present in partial
\* the value partial has for it, keeps every field partial omits (an omitted
\* cost is not reset to 0.00), keeps the id, and returns the product that is
\* stored under id after the call.
UpdateChangesOnlyPresentFields ==
    [][(last'.op = "update" /\ last'.status = StatusOk) =>
        LET old == Stored(products, last'.id)
            new == Stored(products', last'.id)
            want == ProductOf(last'.id, last'.body)
        IN /\ \A f \in DetailFields :
                new[f] = IF last'.body[f].k = "absent" THEN old[f] ELSE want[f]
           /\ new.id = old.id
           /\ new.id = last'.id
           /\ last'.ret_product = new]_vars

\* an update without cost of a product whose cost is 999.99
UpdateKeepsCostWitness ==
    /\ last.op = "update"
    /\ last.status = StatusOk
    /\ last.body.cost = Absent
    /\ last.body.inventory = JInt(10)
    /\ last.ret_product.cost = CostMax
    /\ last.ret_product.inventory = 10

\* C4: after a successful delete(id), every later get, update and delete of
\* id fails with Not-Found, whatever happens in between: the id is never a
\* key of the catalog again.
DeletedStaysNotFound ==
    [][/\ \A k \in deleted : k \notin Keys(products)
       /\ (/\ last'.op \in {"get", "update", "delete"}
           /\ last'.id \in deleted
           /\ last'.op = "update" => Validate(last'.body).ok) =>
            /\ last'.status = StatusNotFound
            /\ UNCHANGED products]_vars

\* an update of a deleted id answered Not-Found after a later create
DeletedNotFoundWitness ==
    /\ last.op = "update"
    /\ last.status = StatusNotFound
    /\ last.id \in deleted
    /\ Len(issued) = 2
    /\ Len(products) = 1

\* the place of id x among the ids the creates returned
CreationRank(x) == CHOOSE i \in DOMAIN issued : issued[i] = x

\* C5: list(type=T) returns exactly the stored products whose type is T,
\* and list without a filter all stored products, each once and in the
\* order of their creation, also after updates and deletes.
ListIsFilteredInCreationOrder ==
    (last.op = "list" /\ last.type \in {Absent} \cup {JStr(t) : t \in ProductType}) =>
        LET L == last.ret_list IN
        /\ last.status = StatusOk
        /\ {L[i] : i \in DOMAIN L} =
             {Stored(products, k) : k \in
                {x \in Keys(products) :
                    last.type = Absent \/ Stored(products, x).type = last.type.s}}
        /\ \A i \in DOMAIN L : \E n \in DOMAIN issued : issued[n] = L[i].id
        /\ \A i, j \in DOMAIN L :
             i < j => CreationRank(L[i].id) < CreationRank(L[j].id)

\* a list by type that returned both stored products, in the order of their
\* creation
ListWitness ==
    /\ last.op = "list"
    /\ last.type = JStr("other")
    /\ Len(products) = 2
    /\ Len(last.ret_list) = 2
    /\ last.ret_list[1].id = FirstId
    /\ last.ret_list[1].inventory = InventoryMax
    /\ last.ret_list[2].inventory = 10

\* C6: a failed operation leaves the catalog and the counter as they were:
\* a create or update with a body that fails validation is answered 400, a
\* get, update or delete of an id that is not stored is answered 404, and
\* every step answered 400 or 404 changes neither products nor next_id.
FailedOperationChangesNothing ==
    [][/\ (last'.op \in {"create", "update"} /\ last'.body \in InvalidBodies) =>
            last'.status = StatusBadRequest
       /\ (/\ last'.op \in {"get", "update", "delete"}
           /\ last'.id \notin Keys(products)
           /\ last'.body \notin InvalidBodies) =>
            last'.status = StatusNotFound
       /\ last'.status \in {StatusBadRequest, StatusNotFound} =>
            UNCHANGED <<products, next_id, issued>>]_vars

\* an update of a stored product refused for its body
FailedOperationWitness ==
    /\ last.op = "update"
    /\ last.status = StatusBadRequest
    /\ last.id \in Keys(products)
    /\ last.body.type = JStr("toy")
    /\ Len(products) = 2

\* C7: every stored product satisfies the constraints of ProductDetails: its
\* type is a member of ProductType, its inventory is in [1, 9999] and its
\* cost is a number (never None) in [0.00, 999.99].
StoredProductsValid ==
    \A i \in DOMAIN products :
        LET p == products[i].value IN
        /\ p.type \in ProductType
        /\ p.inventory >= InventoryMin /\ p.inventory <= InventoryMax
        /\ p.cost # NoneCost
        /\ p.cost >= CostMin /\ p.cost <= CostMax

\* a product whose fields were overwritten by an update with the largest
\* inventory
StoredValidWitness ==
    /\ last.op = "update"
    /\ last.status = StatusOk
    /\ Stored(products, last.id).inventory = InventoryMax
    /\ Stored(products, last.id).cost = CostMin
    /\ Len(products) = 2

\* C8: every stored product has an id a create assigned, the product stored
\* under key k has id k, and no two stored products share a key or an id.
IdsUniqueAndEqualKeys ==
    /\ \A i \in DOMAIN products :
         /\ products[i].value.id = products[i].key
         /\ \E n \in DOMAIN issued : issued[n] = products[i].key
    /\ \A i, j \in DOMAIN products :
         i # j => /\ products[i].key # products[j].key
                  /\ products[i].value.id # products[j].value.id

\* two stored products, the first updated with a body that carries the
\* key id with the value of the second one's id
IdsUniqueWitness ==
    /\ Len(products) = 2
    /\ last.op = "update"
    /\ last.status = StatusOk
    /\ last.id = FirstId
    /\ last.body.id = JInt(2)

\* the responses the scenario names: 201 with id 1; the product with
\* inventory 50; the product with inventory 10; 204; 404
ScenarioProduct(inv) ==
    [id |-> FirstId, name |-> "Pen", type |-> "other", inventory |-> inv, cost |-> 0]

ScenarioResponses ==
    <<[status |-> StatusCreated, ret_id |-> FirstId, ret_product |-> NoProduct],
      [status |-> StatusOk, ret_id |-> 0, ret_product |-> ScenarioProduct(50)],
      [status |-> StatusOk, ret_id |-> 0, ret_product |-> ScenarioProduct(10)],
      [status |-> StatusNoContent, ret_id |-> 0, ret_product |-> NoProduct],
      [status |-> StatusNotFound, ret_id |-> 0, ret_product |-> NoProduct]>>

\* C9: from the empty store the requests create {Pen, other, 50}; get(1);
\* update(1, {inventory: 10}); delete(1); get(1) are answered, in order, by
\* {id: 1}; the product with inventory 50 and cost 0.00; the product with
\* inventory 10; 204; 404.
ScenarioAnswers ==
    scenario \in DOMAIN ScenarioRequests =>
        [status |-> last.status, ret_id |-> last.ret_id,
         ret_product |-> last.ret_product] = ScenarioResponses[scenario]

\* C10: validation accepts an inventory exactly when it is an int (no bool,
\* no string, no number with a fraction part) in [1, 9999]: 0, 10000, "5",
\* true and 5.5 are refused, 1 and 9999 are accepted.
InventoryAcceptedIffIntInRange ==
    validated.done =>
        /\ "inventory" \notin validated.errors <=>
              /\ raw.inventory.k = "int"
              /\ raw.inventory.n >= 1
              /\ raw.inventory.n <= 9999
        /\ raw.inventory \in {JInt(0), JInt(10000), JStr("5"), JBool(TRUE), JFloat(550)}
              => "inventory" \in validated.errors /\ ~validated.ok
        /\ raw.inventory \in {JInt(1), JInt(9999)} => "inventory" \notin validated.errors
        /\ validated.ok => "inventory" \notin validated.errors

\* a body with inventory 9999 that validation accepted
InventoryWitness ==
    /\ validated.done
    /\ validated.ok
    /\ raw.inventory = JInt(9999)
    /\ validated.value.inventory = 9999

\* C11: validation of cost knows three shapes: an omitted cost gives the
\* validated value cost 0.00; an explicit null is refused; a number is
\* accepted exactly when it is in [0.00, 999.99], so -0.01 and 1000.00 are
\* refused and 0.00 and 999.99 accepted.
CostThreeShapes ==
    validated.done =>
        /\ raw.cost = Absent =>
              /\ "cost" \notin validated.errors
              /\ validated.ok => validated.value.cost = 0
        /\ raw.cost = JNull => "cost" \in validated.errors /\ ~validated.ok
        /\ raw.cost.k \in {"int", "float"} =>
              ("cost" \notin validated.errors <=>
                  NumberOf(raw.cost) >= 0 /\ NumberOf(raw.cost) <= 99999)
        /\ raw.cost \in {JFloat(-1), JFloat(100000)} => "cost" \in validated.errors
        /\ raw.cost \in {JFloat(0), JFloat(99999)} => "cost" \notin validated.errors
        /\ (validated.ok /\ raw.cost.k \in {"int", "float"}) =>
              validated.value.cost = NumberOf(raw.cost)

\* a body with cost 999.99 that validation accepted
CostWitness ==
    /\ validated.done
    /\ validated.ok
    /\ raw.cost = JFloat(99999)
    /\ validated.value.cost = 99999

\* a body that is valid in every field
GoodBody == Body(JStr("Pen"), JStr("other"), JInt(50), JFloat(1050), Absent)

\* value v offends as field f: the good body with f replaced by v is refused
Offends(f, v) == ~Validate([GoodBody EXCEPT ![f] = v]).ok

\* C12: validation collects the violations of all fields: the errors of a
\* body name every field whose value offends (each judged on its own in an
\* otherwise valid body) and no other, however many fields offend at once,
\* and the body is accepted only when there is no error.
AllViolationsCollected ==
    validated.done =>
        /\ validated.errors = {f \in DetailFields : Offends(f, raw[f])}
        /\ validated.ok <=> validated.errors = {}

\* a body refused for its type, its inventory and its cost at once
AllViolationsWitness ==
    /\ validated.done
    /\ raw.type = JStr("toy")
    /\ raw.inventory = JInt(10000)
    /\ raw.cost = JNull
    /\ raw.name = JStr("Pen")
    /\ validated.errors = {"type", "inventory", "cost"}

\* C14: validation accepts a type exactly when it is one of the strings
\* book, food, gadget, other: "book" is accepted and "toy" refused.
TypeAcceptedIffMember ==
    validated.done =>
        /\ "type" \notin validated.errors <=>
              /\ raw.type.k = "str"
              /\ raw.type.s \in {"book", "food", "gadget", "other"}
        /\ raw.type = JStr("toy") => "type" \in validated.errors /\ ~validated.ok
        /\ raw.type = JStr("book") => "type" \notin validated.errors
        /\ validated.ok => validated.value.type = raw.type.s

\* a body with type book that validation accepted
TypeWitness ==
    /\ validated.done
    /\ validated.ok
    /\ raw.type = JStr("book")
    /\ validated.value.type = "book"

\* the ids the creates returned
IssuedIds == {issued[i] : i \in DOMAIN issued}

\* C15: get(id), update(id, d) and delete(id) fail with Not-Found exactly
\* when no product with that id is stored, for every id (zero, negative and
\* unassigned ones included); the stored ids are the ids a create returned
\* that were not deleted since; and these operations end in no other error.
NotFoundIffAbsent ==
    [][/\ (/\ last'.op \in {"get", "update", "delete"}
           /\ last'.op = "update" => last'.body \in ValidBodies) =>
            /\ last'.status = StatusNotFound <=> last'.id \notin Keys(products)
            /\ last'.status = StatusNotFound <=> last'.id \notin IssuedIds \ deleted
            /\ last'.status \in {StatusOk, StatusNoContent, StatusNotFound}
       /\ Keys(products) = IssuedIds \ deleted
       /\ Keys(products') = IssuedIds' \ deleted']_vars

\* a get of the negative id answered Not-Found while the second product is
\* stored and the first is deleted
NotFoundWitness ==
    /\ last.op = "get"
    /\ last.id = -1
    /\ last.status = StatusNotFound
    /\ Keys(products) = {2}
    /\ deleted = {FirstId}

\* the keys of a dict, in its order
KeySeq(d) == [i \in DOMAIN d |-> d[i].key]

CounterCountsCreates ==
    /\ next_id = 1 + Len(issued)
    /\ \A i \in DOMAIN issued : issued[i] = i
    /\ \A i \in DOMAIN products :
         products[i].value.id < next_id /\ products[i].key < next_id

\* both products deleted and the counter still past them
CounterWitness ==
    /\ Len(issued) = 2
    /\ products = << >>
    /\ deleted = {FirstId, 2}
    /\ next_id = 3

\* C18: list and get are read-only and list never fails: a list with no
\* filter or a ProductType filter is answered 200, with the empty sequence
\* when no stored product matches, and neither a list nor a get (answered
\* or Not-Found) changes a stored product, the stored ids or the counter.
ListAndGetReadOnly ==
    [][/\ last'.op \in {"list", "get"} => UNCHANGED <<products, next_id>>
       /\ (/\ last'.op = "list"
           /\ last'.type \in {Absent} \cup {JStr(t) : t \in ProductType}) =>
            /\ last'.status = StatusOk
            /\ (\A k \in Keys(products) :
                    last'.type # Absent /\ Stored(products, k).type # last'.type.s)
                 => last'.ret_list = << >>]_vars

\* a list by a type no stored product has, answered with the empty sequence
ListEmptyWitness ==
    /\ last.op = "list"
    /\ last.type = JStr("gadget")
    /\ last.status = StatusOk
    /\ last.ret_list = << >>
    /\ Len(products) = 2

\* C13: with several requests in flight on the event loop every service
\* operation runs to completion once resumed (no task is ever parked
\* between its statements), so the creates return pairwise different ids
\* and none overwrites an entry, every created product is stored or was
\* deleted, and no update or delete mutates or removes a product whose
\* entry another delete removed.
OperationsRunToCompletion ==
    /\ \A t \in TaskIds : tasks[t].pc \in {"idle", FirstPc(tasks[t].op)}
    /\ last.op # "none" =>
         /\ ~last.overwrote
         /\ ~last.stale
         /\ last.status # StatusServerError
    /\ \A i, j \in DOMAIN issued : i # j => issued[i] # issued[j]
    /\ Keys(products) \cup deleted = IssuedIds
    /\ Keys(products) \cap deleted = {}
    /\ Len(products) = Cardinality(Keys(products))

\* an update that ran while a create was in flight and was answered
\* Not-Found for a product a delete removed
ConcurrentWitness ==
    /\ last.op = "update"
    /\ last.raced
    /\ last.status = StatusNotFound
    /\ last.id \in deleted
    /\ \E t \in TaskIds : tasks[t].op = "create" /\ InFlight(t)

====
